---- MODULE Spec2Model ----
(***************************************************************************)
(* Model of the MetadataEditor widget                                      *)
(* (packages/metadata-common/src/MetadataEditor.tsx): the two startup      *)
(* fetches, rendering, the change handlers, validation, save, and close.   *)
(***************************************************************************)
EXTENDS Integers, Sequences, FiniteSets, TLC

(***************************************************************************)
(* JavaScript values.  Every value has the same three components so that   *)
(* two values of different JavaScript types can be compared.               *)
(***************************************************************************)
Undef == [t |-> "undefined", s |-> "", a |-> <<>>]
Null == [t |-> "null", s |-> "", a |-> <<>>]
Str(x) == [t |-> "string", s |-> x, a |-> <<>>]
Arr(x) == [t |-> "array", s |-> "", a |-> x]
Bool(b) == [t |-> "boolean", s |-> IF b THEN "true" ELSE "false", a |-> <<>>]

\* JavaScript truthiness (ToBoolean) of the values above.
Truthy(v) ==
  CASE v.t = "undefined" -> FALSE
    [] v.t = "null" -> FALSE
    [] v.t = "string" -> v.s # ""
    [] v.t = "boolean" -> v.s = "true"
    [] v.t = "array" -> TRUE

\* JavaScript  x || y .
Or(x, y) == IF Truthy(x) THEN x ELSE y

\* JavaScript  obj[key]  on an object held as a function on its own keys.
Get(obj, key) == IF key \in DOMAIN obj THEN obj[key] ELSE Undef

\* JavaScript  obj[key] = value .
Put(obj, key, value) ==
  [k \in (DOMAIN obj) \cup {key} |-> IF k = key THEN value ELSE obj[k]]

\* JavaScript  delete obj[key] .
Delete(obj, key) == [k \in (DOMAIN obj) \ {key} |-> obj[k]]

EmptyObject == [k \in {} |-> Undef]

NO_SELECTION == "(No selection)"

\* isValueEmpty with the length test of the single-element case left out.
isValueEmpty_AnyLength(schemaValue) ==
  \/ schemaValue = Undef
  \/ schemaValue = Null
  \/ schemaValue = Str("")
  \/ (schemaValue.t = "array" /\ Len(schemaValue.a) = 0)
  \/ (schemaValue.t = "array" /\ Len(schemaValue.a) >= 1
        /\ schemaValue.a[1] = "")
  \/ schemaValue = Str(NO_SELECTION)

isValueEmpty(schemaValue) ==
  \/ schemaValue = Undef
  \/ schemaValue = Null
  \/ schemaValue = Str("")
  \/ (schemaValue.t = "array" /\ Len(schemaValue.a) = 0)
  \/ (schemaValue.t = "array" /\ Len(schemaValue.a) = 1
        /\ schemaValue.a[1] = "")
  \/ schemaValue = Str(NO_SELECTION)


(***************************************************************************)
(* What the metadata service can answer.  Object keys keep the order of    *)
(* the service's JSON: KeyOrder lists every key in that order.             *)
(***************************************************************************)
KeyOrder == <<"A", "B", "language", "tags", "code">>

\* A schema property: its default, whether it carries uihints, the
\* uihints' field_type ("undefined" when absent), the uihints' error, its
\* enum and the uihints' default_choices.
Property(default, uihints, field_type) ==
  [default |-> default, uihints |-> uihints, field_type |-> field_type,
   error |-> Undef, enum |-> Undef, default_choices |-> Undef]

TextProperties ==
  [k \in {"A", "B"} |->
     IF k = "A" THEN Property(Undef, TRUE, "textinput")
                ELSE Property(Str("x"), FALSE, "undefined")]

SnippetProperties ==
  [k \in {"language", "tags", "code"} |->
     CASE k = "language" -> Property(Undef, TRUE, "dropdown")
       [] k = "tags" -> Property(Undef, TRUE, "tags")
       [] k = "code" -> Property(Undef, TRUE, "code")]

SchemaObject(name, title, properties, required) ==
  [name |-> name, title |-> title, properties |-> properties,
   required |-> required]

SCHEMA_NAME == "s"

\* The schema lists getSchema may resolve to: none with the editor's schema
\* name, or another schema followed by the editor's.
SchemaLists ==
  {<<SchemaObject("other", "Other", TextProperties, Arr(<<>>))>>}
  \cup {<<SchemaObject("other", "Other", TextProperties, Arr(<<>>)),
          SchemaObject(SCHEMA_NAME, "Text", TextProperties, r)>> :
          r \in {Undef, Arr(<<"A">>), Arr(<<"A", "B">>)}}
  \cup {<<SchemaObject("other", "Other", TextProperties, Arr(<<>>)),
          SchemaObject(SCHEMA_NAME, "Snippet", SnippetProperties, r)>> :
          r \in {Undef, Arr(<<"language", "code">>)}}

Record1 ==
  [name |-> "r1", display_name |-> Str("d1"),
   metadata |-> [k \in {"A", "language", "tags", "code"} |->
     CASE k = "A" -> Str("a")
       [] k = "language" -> Str("X")
       [] k = "tags" -> Arr(<<"t1">>)
       [] k = "code" -> Arr(<<"c">>)]]

Record2 ==
  [name |-> "r2", display_name |-> Str("d2"),
   metadata |-> [k \in {"language"} |-> Str("y")]]

\* The record lists getMetadata may resolve to.
MetadataLists == {<<Record1, Record2>>}

\* The constructor's (name, code) arguments.
Props ==
  {[name |-> Undef, code |-> Undef],
   [name |-> Undef, code |-> Arr(<<"p">>)],
   [name |-> Str("r1"), code |-> Undef],
   [name |-> Str("r2"), code |-> Undef]}

DIRTY_CLASS == "jp-mod-dirty"

VARIABLES
  name,               \* props.name
  code,               \* props.code
  schema,             \* this.schema
  schemaDisplayName,  \* this.schemaDisplayName
  requiredFields,     \* this.requiredFields
  allMetadata,        \* this.allMetadata
  metadata,           \* this.metadata
  metadataRef,        \* 0: this.metadata is the editor's own object;
                      \* i: it is the object allMetadata[i].metadata
  displayName,        \* this.displayName
  dirty,              \* this.dirty
  clearDirty,         \* this.clearDirty: "null" or "handle"
  statusDirty,        \* handles of status.setDirty() not yet disposed
  allTags,            \* this.allTags
  invalidForm,        \* this.invalidForm
  editor,             \* whether this.editor is set
  titleLabel,         \* this.title.label
  titleClassName,     \* this.title.className, as its sequence of classes
  dom,                \* the controls the last render produced
  pc,                 \* where initializeMetadata is
  inflight,           \* number of create and update requests not yet
                      \* answered
  dialogs,            \* open "Close without saving?" dialogs
  disposed,           \* this.isDisposed
  onSaveCalls,        \* calls of this.onSave
  last,               \* the last handler run and how it ended
  unsaved,            \* whether the record or the display name has changed
                      \* since the last request was sent (or since
                      \* construction if none was)
  schemaValue,        \* argument of a direct isValueEmpty call
  emptyResult,        \* its result
  defaultChoices      \* result of a direct getDefaultChoices call

editorVars ==
  <<name, code, schema, schemaDisplayName, requiredFields, allMetadata,
    metadata, metadataRef, displayName, dirty, clearDirty, statusDirty,
    allTags, invalidForm, editor, titleLabel, titleClassName, dom, pc,
    inflight, dialogs, disposed, onSaveCalls, last, unsaved>>

vars == <<editorVars, schemaValue, emptyResult, defaultChoices>>

NothingRendered ==
  [rendered |-> FALSE, nameInput |-> FALSE, fields |-> {}]

NoRequest == [method |-> "none", name |-> Undef, body |-> EmptyObject]

\* A handler's run: which handler, its arguments, how it ended ("ok",
\* "threw" for an uncaught TypeError, or a handler's own outcome), whether
\* it called RequestErrors.serverError, and the postMetadata or putMetadata
\* call it made (NoRequest if none).
Report(op, outcome, serverError, request) ==
  [op |-> op, args |-> <<>>, outcome |-> outcome, serverError |-> serverError,
   request |-> request]

Step(op, outcome) == Report(op, outcome, FALSE, NoRequest)

StepOn(op, args, outcome) == [Step(op, outcome) EXCEPT !.args = args]

\* The state the constructor leaves, with the getSchema request in flight.
Constructed(props) ==
  /\ name = props.name
  /\ code = props.code
  /\ schema = EmptyObject
  /\ schemaDisplayName = Undef
  /\ requiredFields = Undef
  /\ allMetadata = <<>>
  /\ metadata = EmptyObject
  /\ metadataRef = 0
  /\ displayName = Undef
  /\ dirty = Undef
  /\ clearDirty = "null"
  /\ statusDirty = 0
  /\ allTags = <<>>
  /\ invalidForm = FALSE
  /\ editor = FALSE
  /\ titleLabel = Str("")
  /\ titleClassName = <<>>
  /\ dom = NothingRendered
  /\ pc = "getSchema"
  /\ inflight = 0
  /\ dialogs = 0
  /\ disposed = FALSE
  /\ onSaveCalls = 0
  /\ last = Step("constructor", "ok")
  /\ unsaved = FALSE

NoChoices == [done |-> FALSE, value |-> <<>>]

Init ==
  /\ \E props \in Props : Constructed(props)
  /\ schemaValue = Undef
  /\ emptyResult = [done |-> FALSE, value |-> FALSE]
  /\ defaultChoices = NoChoices


\* Array.prototype.includes on a value that is an array of strings.
Includes(list, x) == \E i \in 1..Len(list.a) : list.a[i] = x

\* String.prototype.includes(DIRTY_CLASS) on the class name.
HasDirtyClass(className) ==
  \E i \in 1..Len(className) : className[i] = DIRTY_CLASS

\* className.replace(DIRTY_CLASS, ''): the first occurrence goes.
RemoveDirtyClass(className) ==
  IF HasDirtyClass(className)
  THEN LET i == CHOOSE j \in 1..Len(className) :
                  /\ className[j] = DIRTY_CLASS
                  /\ \A k \in 1..(j - 1) : className[k] # DIRTY_CLASS
       IN SubSeq(className, 1, i - 1) \o SubSeq(className, i + 1, Len(className))
  ELSE className

\* handleDirtyState that asks the status for a handle and appends the dirty
\* class on every call with true.
handleDirtyState_AlwaysAcquires(d) ==
  /\ dirty' = Bool(d)
  /\ IF d
     THEN clearDirty' = "handle" /\ statusDirty' = statusDirty + 1
     ELSE IF clearDirty # "null"
     THEN clearDirty' = "null" /\ statusDirty' = statusDirty - 1
     ELSE UNCHANGED <<clearDirty, statusDirty>>
  /\ IF d
     THEN titleClassName' = Append(titleClassName, DIRTY_CLASS)
     ELSE titleClassName' = RemoveDirtyClass(titleClassName)

\* handleDirtyState that never leaves the dirty state once entered.
handleDirtyState_NeverClears(d) ==
  /\ dirty' = IF Truthy(dirty) THEN dirty ELSE Bool(d)
  /\ UNCHANGED <<clearDirty, statusDirty, titleClassName>>

\* handleDirtyState that flips the flag instead of setting it.
handleDirtyState_Toggles(d) ==
  /\ dirty' = Bool(~Truthy(dirty))
  /\ UNCHANGED <<clearDirty, statusDirty, titleClassName>>

handleDirtyState(d) ==
  /\ dirty' = Bool(d)
  /\ IF d /\ clearDirty = "null"
     THEN clearDirty' = "handle" /\ statusDirty' = statusDirty + 1
     ELSE IF ~d /\ clearDirty # "null"
     THEN clearDirty' = "null" /\ statusDirty' = statusDirty - 1
     ELSE UNCHANGED <<clearDirty, statusDirty>>
  /\ IF d /\ ~HasDirtyClass(titleClassName)
     THEN titleClassName' = Append(titleClassName, DIRTY_CLASS)
     ELSE IF ~d
     THEN titleClassName' = RemoveDirtyClass(titleClassName)
     ELSE UNCHANGED titleClassName

dirtyVars == <<dirty, clearDirty, statusDirty, titleClassName>>

\* Whether this step changes the record or the display name.
Mutated == metadata' # metadata \/ displayName' # displayName

\* this.metadata = m, seen through every reference to the same object.
SetMetadata(m) ==
  /\ metadata' = m
  /\ allMetadata' =
       IF metadataRef = 0 THEN allMetadata
       ELSE [allMetadata EXCEPT ![metadataRef].metadata = m]

(***************************************************************************)
(* hasInvalidFields                                                        *)
(***************************************************************************)
\* The value validation looks at (lines 217-218).
FieldValue(meta, sch, schemaField) ==
  Or(Get(meta, schemaField), sch[schemaField].default)

\* The loop over the schema's fields from KeyOrder[i] on.  acc holds
\* invalidForm, the schema with its error flags, and whether a TypeError
\* ended the loop: requiredFields undefined, or a field without uihints.
RECURSIVE ValidateFrom(_, _)
ValidateFrom(i, acc) ==
  IF i > Len(KeyOrder) \/ acc.threw THEN acc
  ELSE LET schemaField == KeyOrder[i] IN
    IF schemaField \notin DOMAIN schema THEN ValidateFrom(i + 1, acc)
    ELSE IF requiredFields = Undef THEN [acc EXCEPT !.threw = TRUE]
    ELSE LET empty ==
               /\ Includes(requiredFields, schemaField)
               /\ isValueEmpty(FieldValue(metadata, schema, schemaField))
         IN IF ~schema[schemaField].uihints
            THEN [acc EXCEPT !.invalidForm = acc.invalidForm \/ empty,
                             !.threw = TRUE]
            ELSE ValidateFrom(i + 1,
                   [acc EXCEPT !.invalidForm = acc.invalidForm \/ empty,
                               !.schema[schemaField].error = Bool(empty)])

hasInvalidFields ==
  ValidateFrom(1, [invalidForm |-> displayName \in {Null, Str("")},
                   schema |-> schema, threw |-> FALSE])


(***************************************************************************)
(* initializeMetadata: the getSchema answer, then the getMetadata answer.  *)
(* Neither continuation looks at isDisposed.                               *)
(***************************************************************************)
HasSchema(schemas) == \E i \in 1..Len(schemas) : schemas[i].name = SCHEMA_NAME

\* The schema the loop of lines 124-150 stops at.
FirstSchema(schemas) ==
  schemas[CHOOSE i \in 1..Len(schemas) :
            /\ schemas[i].name = SCHEMA_NAME
            /\ \A j \in 1..(i - 1) : schemas[j].name # SCHEMA_NAME]

GetSchemaResolve ==
  /\ UNCHANGED unsaved
  /\ pc = "getSchema"
  /\ \E schemas \in SchemaLists :
       IF HasSchema(schemas)
       THEN /\ schema' = FirstSchema(schemas).properties
            /\ schemaDisplayName' = Str(FirstSchema(schemas).title)
            /\ requiredFields' = FirstSchema(schemas).required
            /\ titleLabel' = IF ~Truthy(name)
                             THEN Str("New " \o FirstSchema(schemas).title)
                             ELSE titleLabel
       ELSE UNCHANGED <<schema, schemaDisplayName, requiredFields, titleLabel>>
  /\ pc' = "getMetadata"
  /\ last' = Step("getSchema", "ok")
  /\ UNCHANGED <<name, code, allMetadata, metadata, metadataRef, displayName,
                 dirtyVars, allTags, invalidForm, editor, dom, inflight,
                 dialogs, disposed, onSaveCalls, schemaValue, emptyResult,
                 defaultChoices>>

GetSchemaReject ==
  /\ UNCHANGED unsaved
  /\ pc = "getSchema"
  /\ pc' = "getMetadata"
  /\ last' = Report("getSchema", "ok", TRUE, NoRequest)
  /\ UNCHANGED <<name, code, schema, schemaDisplayName, requiredFields,
                 titleLabel, allMetadata, metadata, metadataRef, displayName,
                 dirtyVars, allTags, invalidForm, editor, dom, inflight,
                 dialogs, disposed, onSaveCalls, schemaValue, emptyResult,
                 defaultChoices>>

\* Lines 163-167: push the tags not yet in the pool.
RECURSIVE AddTags(_, _)
AddTags(tags, pool) ==
  IF tags = <<>> THEN pool
  ELSE AddTags(Tail(tags),
               IF \E i \in 1..Len(pool) : pool[i] = Head(tags)
               THEN pool ELSE Append(pool, Head(tags)))

\* Lines 161-176, from record i on.
RECURSIVE LoadFrom(_, _)
LoadFrom(i, acc) ==
  IF i > Len(acc.allMetadata) THEN acc
  ELSE LET rec == acc.allMetadata[i]
           tags == Get(rec.metadata, "tags")
           match == name = Str(rec.name)
       IN LoadFrom(i + 1,
            [allMetadata |->
               IF Truthy(tags) THEN acc.allMetadata
               ELSE [acc.allMetadata EXCEPT
                       ![i].metadata = Put(rec.metadata, "tags", Arr(<<>>))],
             allTags |-> IF Truthy(tags) THEN AddTags(tags.a, acc.allTags)
                         ELSE acc.allTags,
             metadataRef |-> IF match THEN i ELSE acc.metadataRef,
             displayName |-> IF match THEN rec.display_name
                             ELSE acc.displayName,
             titleLabel |-> IF match THEN rec.display_name
                            ELSE acc.titleLabel])

\* Lines 160-179 once this.allMetadata is records.
Loaded(records) ==
  IF Truthy(name)
  THEN LoadFrom(1, [allMetadata |-> records, allTags |-> allTags,
                    metadataRef |-> metadataRef, displayName |-> displayName,
                    titleLabel |-> titleLabel])
  ELSE [allMetadata |-> records, allTags |-> allTags,
        metadataRef |-> metadataRef, displayName |-> Str(""),
        titleLabel |-> titleLabel]

\* Whether document.getElementById('code:' + this.id) finds a node.
CodeNode == \E f \in dom.fields : schema[f].field_type = "code"

\* onInitializedMetadata on the record m: the record afterwards, whether
\* the editor exists afterwards, and whether undefined.join threw.
onInitializedMetadata(m) ==
  IF ~editor /\ CodeNode
  THEN IF Truthy(name)
       THEN IF Get(m, "code").t = "array"
            THEN [metadata |-> m, editor |-> TRUE, threw |-> FALSE]
            ELSE [metadata |-> m, editor |-> FALSE, threw |-> TRUE]
       ELSE IF Truthy(code)
            THEN [metadata |-> Put(m, "code", code), editor |-> TRUE,
                  threw |-> FALSE]
            ELSE [metadata |-> m, editor |-> TRUE, threw |-> FALSE]
  ELSE [metadata |-> m, editor |-> editor, threw |-> FALSE]

\* Lines 156-181 with this.allMetadata = records.
FinishInitialize(records, serverError) ==
  LET l == Loaded(records)
      m == IF l.metadataRef = 0 THEN metadata
           ELSE l.allMetadata[l.metadataRef].metadata
      o == onInitializedMetadata(m)
  IN /\ metadataRef' = l.metadataRef
     /\ metadata' = o.metadata
     /\ allMetadata' =
          IF l.metadataRef = 0 THEN l.allMetadata
          ELSE [l.allMetadata EXCEPT ![l.metadataRef].metadata = o.metadata]
     /\ allTags' = l.allTags
     /\ displayName' = l.displayName
     /\ titleLabel' = l.titleLabel
     /\ editor' = o.editor
     /\ last' = Report("getMetadata", IF o.threw THEN "threw" ELSE "ok",
                       serverError, NoRequest)
     /\ unsaved' = (unsaved \/ o.metadata # m)

GetMetadataResolve ==
  /\ pc = "getMetadata"
  /\ \E records \in MetadataLists : FinishInitialize(records, FALSE)
  /\ pc' = "done"
  /\ UNCHANGED <<name, code, schema, schemaDisplayName, requiredFields,
                 dirtyVars, invalidForm, dom, inflight, dialogs, disposed,
                 onSaveCalls, schemaValue, emptyResult,
                 defaultChoices>>

GetMetadataReject ==
  /\ pc = "getMetadata"
  /\ FinishInitialize(allMetadata, TRUE)
  /\ pc' = "done"
  /\ UNCHANGED <<name, code, schema, schemaDisplayName, requiredFields,
                 dirtyVars, invalidForm, dom, inflight, dialogs, disposed,
                 onSaveCalls, schemaValue, emptyResult,
                 defaultChoices>>

(***************************************************************************)
(* getDefaultChoices                                                       *)
(***************************************************************************)
\* String.prototype.toLowerCase on the strings the dropdowns deal in.
toLowerCase(str) ==
  CASE str = "X" -> "x"
    [] str = "Y" -> "y"
    [] OTHER -> str

\* find(defaultChoices, ...) that compares the strings as they are.
FindChoice_CaseSensitive(choices, value) ==
  \E i \in 1..Len(choices) : choices[i] = value

\* Whether find(defaultChoices, ...) of lines 376-381 finds a choice.
FindChoice(choices, value) ==
  \E i \in 1..Len(choices) : toLowerCase(choices[i]) = toLowerCase(value)

\* The loop of lines 372-386 from record i on.  A record of allMetadata is
\* never the object this.metadata (that is a record's metadata property or
\* the editor's own object), so the test of line 375 is true for every
\* record, the one being edited included.
RECURSIVE ChoicesFrom(_, _, _)
ChoicesFrom(fieldName, i, choices) ==
  IF i > Len(allMetadata) THEN choices
  ELSE LET value == Get(allMetadata[i].metadata, fieldName)
       IN ChoicesFrom(fieldName, i + 1,
            IF Truthy(value) /\ ~FindChoice(choices, value.s)
            THEN Append(choices, value.s)
            ELSE choices)

getDefaultChoices(fieldName) ==
  IF Truthy(schema[fieldName].enum)
  THEN schema[fieldName].enum.a
  ELSE ChoicesFrom(fieldName, 1,
         IF schema[fieldName].default_choices = Undef THEN <<>>
         ELSE schema[fieldName].default_choices.a)

(***************************************************************************)
(* render: the controls it produces.  renderField gives every rendered     *)
(* field a uihints object (lines 407-410).  An update can be requested at  *)
(* any time (the darkMode setter, lines 201-204), so the widget may render *)
(* at any time until it is disposed.                                       *)
(***************************************************************************)
Render ==
  /\ UNCHANGED unsaved
  /\ ~disposed
  /\ dom' = [rendered |-> TRUE, nameInput |-> displayName # Undef,
             fields |-> DOMAIN schema]
  /\ schema' = [f \in DOMAIN schema |-> [schema[f] EXCEPT !.uihints = TRUE]]
  /\ UNCHANGED <<last, name, code, schemaDisplayName, requiredFields, allMetadata,
                 metadata, metadataRef, displayName, dirtyVars, allTags,
                 invalidForm, editor, titleLabel, pc, inflight, dialogs,
                 disposed, onSaveCalls, schemaValue, emptyResult,
                 defaultChoices>>


(***************************************************************************)
(* The change handlers.  A handler runs only for a control that the last   *)
(* render produced, no control outlives dispose, and the user reaches no   *)
(* control while the modal dialog of onCloseRequest is open.               *)
(***************************************************************************)
\* Whether the user can act on the widget: it is there and showDialog's
\* modal dialog (lines 234-243) is not in front of it.
Interactive == ~disposed /\ dialogs = 0

\* event.nativeEvent.target.value of a text input.
TextValues == {"", "a"}

\* The values a dropdown hands to handleDropdownChange.
DropdownValues == {"y", NO_SELECTION}

\* The texts the code editor reports, character by character.
Texts == {<<>>, <<"c">>, <<"\n">>}

\* text.split('\n'), with line the characters since the last newline.
RECURSIVE SplitFrom(_, _, _)
SplitFrom(text, i, line) ==
  IF i > Len(text) THEN <<line>>
  ELSE IF text[i] = "\n" THEN <<line>> \o SplitFrom(text, i + 1, "")
  ELSE SplitFrom(text, i + 1, line \o text[i])

Split(text) == SplitFrom(text, 1, "")

IsTextInput(f) ==
  f \in dom.fields /\ schema[f].field_type \in {"textinput", "undefined"}

\* The branch of lines 293-302 taken for a field other than display_name.
TextChange(schemaField, value) ==
  IF ~Truthy(Str(value))
  THEN IF requiredFields = Undef THEN "threw"
       ELSE IF ~Includes(requiredFields, schemaField) THEN "delete"
       ELSE "store"
  ELSE "store"

handleTextInputChange(schemaField, value) ==
  /\ handleDirtyState(TRUE)
  /\ IF schemaField = "display_name"
     THEN /\ displayName' = Str(value)
          /\ last' = StepOn("textInput", <<schemaField, value>>, "ok")
          /\ UNCHANGED <<metadata, allMetadata>>
     ELSE /\ CASE TextChange(schemaField, value) = "threw" ->
                    UNCHANGED <<metadata, allMetadata>>
              [] TextChange(schemaField, value) = "delete" ->
                    SetMetadata(Delete(metadata, schemaField))
              [] TextChange(schemaField, value) = "store" ->
                    SetMetadata(Put(metadata, schemaField, Str(value)))
          /\ last' = StepOn("textInput", <<schemaField, value>>,
                            IF TextChange(schemaField, value) = "threw"
                            THEN "threw" ELSE "ok")
          /\ UNCHANGED displayName

TextInputChange ==
  /\ Interactive
  /\ \E schemaField \in {"display_name"} \cup DOMAIN schema, value \in TextValues :
       /\ IF schemaField = "display_name" THEN dom.nameInput
          ELSE IsTextInput(schemaField)
       /\ handleTextInputChange(schemaField, value)
  /\ UNCHANGED <<name, code, schema, schemaDisplayName, requiredFields,
                 metadataRef, allTags, invalidForm, editor, titleLabel, dom,
                 pc, inflight, dialogs, disposed, onSaveCalls, schemaValue,
                 emptyResult,
                 defaultChoices>>
  /\ unsaved' = (unsaved \/ Mutated)

\* Lines 305-317; setting the mime type throws while this.editor is unset.
handleDropdownChange(schemaField, value) ==
  /\ handleDirtyState(TRUE)
  /\ SetMetadata(Put(metadata, schemaField, Str(value)))
  /\ last' = StepOn("dropdown", <<schemaField, value>>,
                    IF schemaField = "language" /\ ~editor THEN "threw"
                    ELSE "ok")

DropdownChange ==
  /\ Interactive
  /\ \E schemaField \in dom.fields, value \in DropdownValues :
       /\ schema[schemaField].field_type = "dropdown"
       /\ handleDropdownChange(schemaField, value)
  /\ UNCHANGED <<name, code, schema, schemaDisplayName, requiredFields,
                 metadataRef, displayName, allTags, invalidForm, editor,
                 titleLabel, dom, pc, inflight, dialogs, disposed,
                 onSaveCalls, schemaValue, emptyResult,
                 defaultChoices>>
  /\ unsaved' = (unsaved \/ Mutated)

\* The selections the tags control reports.
TagSelections == {<<>>, <<"t2">>}

\* The (selectedTags, allTags) pairs the tags control calls handleChange
\* with: the pool it was given, extended by the selected tags new to it.
TagsControlChanges ==
  {[selectedTags |-> sel, allTags |-> AddTags(sel, allTags)] :
     sel \in TagSelections}

\* handleChangeOnTag that takes the selection for the pool.
handleChangeOnTag_PoolIsSelection(selectedTags, tags) ==
  /\ handleDirtyState(TRUE)
  /\ SetMetadata(Put(metadata, "tags", Arr(selectedTags)))
  /\ allTags' = selectedTags
  /\ last' = Step("tags", "ok")

handleChangeOnTag(selectedTags, tags) ==
  /\ handleDirtyState(TRUE)
  /\ SetMetadata(Put(metadata, "tags", Arr(selectedTags)))
  /\ allTags' = tags
  /\ last' = Step("tags", "ok")

ChangeOnTag ==
  /\ Interactive
  /\ \E f \in dom.fields : schema[f].field_type = "tags"
  /\ \E c \in TagsControlChanges : handleChangeOnTag(c.selectedTags, c.allTags)
  /\ UNCHANGED <<name, code, schema, schemaDisplayName, requiredFields,
                 metadataRef, displayName, invalidForm, editor, titleLabel,
                 dom, pc, inflight, dialogs, disposed, onSaveCalls,
                 schemaValue, emptyResult,
                 defaultChoices>>
  /\ unsaved' = (unsaved \/ Mutated)

\* The slot connected to editor.model.value.changed (lines 360-363).
CodeChanged ==
  /\ Interactive
  /\ editor
  /\ \E text \in Texts : SetMetadata(Put(metadata, "code", Arr(Split(text))))
  /\ handleDirtyState(TRUE)
  /\ last' = Step("code", "ok")
  /\ UNCHANGED <<name, code, schema, schemaDisplayName, requiredFields,
                 metadataRef, displayName, allTags, invalidForm, editor,
                 titleLabel, dom, pc, inflight, dialogs, disposed,
                 onSaveCalls, schemaValue, emptyResult,
                 defaultChoices>>
  /\ unsaved' = (unsaved \/ Mutated)


(***************************************************************************)
(* onCloseRequest and the dialog's answer                                  *)
(***************************************************************************)
\* this.dispose(): idempotent; the rendered controls go with the widget.
Dispose ==
  /\ disposed' = TRUE
  /\ dom' = NothingRendered

\* onCloseRequest that tears down whatever the dirty flag.
onCloseRequest_NoConfirm(isDirty) ==
  /\ Dispose
  /\ UNCHANGED dialogs

\* onCloseRequest (lines 232-253) when this.dirty is isDirty.
onCloseRequest(isDirty) ==
  IF isDirty
  THEN /\ dialogs' = dialogs + 1
       /\ UNCHANGED <<disposed, dom>>
  ELSE /\ Dispose
       /\ UNCHANGED dialogs

CloseRequest ==
  /\ UNCHANGED unsaved
  /\ Interactive
  /\ onCloseRequest(Truthy(dirty))
  /\ last' = Step("close", IF disposed' THEN "disposed" ELSE "dialog")
  /\ UNCHANGED <<name, code, schema, schemaDisplayName, requiredFields,
                 allMetadata, metadata, metadataRef, displayName, dirtyVars,
                 allTags, invalidForm, editor, titleLabel, pc, inflight,
                 onSaveCalls, schemaValue, emptyResult,
                 defaultChoices>>

\* The dialog's promise resolves with response.button.accept (244-247).
DialogAccept ==
  /\ UNCHANGED unsaved
  /\ dialogs > 0
  /\ dialogs' = dialogs - 1
  /\ Dispose
  /\ last' = Step("dialog", "accept")
  /\ UNCHANGED <<name, code, schema, schemaDisplayName, requiredFields,
                 allMetadata, metadata, metadataRef, displayName, dirtyVars,
                 allTags, invalidForm, editor, titleLabel, pc, inflight,
                 onSaveCalls, schemaValue, emptyResult,
                 defaultChoices>>

DialogDecline ==
  /\ UNCHANGED unsaved
  /\ dialogs > 0
  /\ dialogs' = dialogs - 1
  /\ last' = Step("dialog", "decline")
  /\ UNCHANGED <<name, code, schema, schemaDisplayName, requiredFields,
                 allMetadata, metadata, metadataRef, displayName, dirtyVars,
                 allTags, invalidForm, editor, titleLabel, dom, pc, inflight,
                 disposed, onSaveCalls, schemaValue, emptyResult,
                 defaultChoices>>

(***************************************************************************)
(* saveMetadata and the service's answer                                   *)
(***************************************************************************)
MaxInFlight == 2

\* JSON.stringify of an object of values: undefined properties are left out.
StringifyObject(m) == [k \in {j \in DOMAIN m : m[j] # Undef} |-> m[k]]

\* JSON.stringify(newMetadata) (lines 256-260, 268, 279).
JSONstringify(newMetadata) ==
  [k \in {"schema_name", "metadata"}
         \cup (IF newMetadata.display_name = Undef THEN {}
               ELSE {"display_name"}) |->
     IF k = "metadata" THEN StringifyObject(newMetadata.metadata)
     ELSE newMetadata[k]]

\* The request of lines 267-287 that always creates.
Request_AlwaysPost(body) == [method |-> "POST", name |-> Undef, body |-> body]

\* The request of lines 267-287: postMetadata without a name, putMetadata
\* with this.name otherwise.
Request(body) ==
  IF ~Truthy(name)
  THEN [method |-> "POST", name |-> Undef, body |-> body]
  ELSE [method |-> "PUT", name |-> name, body |-> body]

\* What saveMetadata does after validation v, ignoring an invalid form.
SaveOutcome_IgnoresInvalid(v) ==
  IF v.threw THEN "threw" ELSE "sent"

\* What saveMetadata does after validation v (lines 262-265).
SaveOutcome(v) ==
  IF v.threw THEN "threw"
  ELSE IF v.invalidForm THEN "invalid"
  ELSE "sent"

SaveClick ==
  /\ Interactive
  /\ dom.rendered
  /\ inflight < MaxInFlight
  /\ LET v == hasInvalidFields
         newMetadata == [schema_name |-> Str(SCHEMA_NAME),
                         display_name |-> displayName,
                         metadata |-> metadata]
     IN /\ invalidForm' = v.invalidForm
        /\ schema' = v.schema
        /\ inflight' = IF SaveOutcome(v) = "sent" THEN inflight + 1
                       ELSE inflight
        /\ unsaved' = IF SaveOutcome(v) = "sent" THEN FALSE ELSE unsaved
        /\ last' = Report("save", SaveOutcome(v), FALSE,
                          IF SaveOutcome(v) = "sent"
                          THEN Request(JSONstringify(newMetadata))
                          ELSE NoRequest)
  /\ UNCHANGED <<name, code, schemaDisplayName, requiredFields, allMetadata,
                 metadata, metadataRef, displayName, dirtyVars, allTags,
                 editor, titleLabel, dom, pc, dialogs, disposed, onSaveCalls,
                 schemaValue, emptyResult,
                 defaultChoices>>

\* The .then that closes before it marks the editor clean.
SaveResolve_ClosesFirst ==
  /\ UNCHANGED unsaved
  /\ inflight > 0
  /\ inflight' = inflight - 1
  /\ onCloseRequest(Truthy(dirty))
  /\ handleDirtyState(FALSE)
  /\ onSaveCalls' = onSaveCalls + 1
  /\ last' = Step("saveResponse", "ok")
  /\ UNCHANGED <<name, code, schema, schemaDisplayName, requiredFields,
                 allMetadata, metadata, metadataRef, displayName, allTags,
                 invalidForm, editor, titleLabel, pc, schemaValue,
                 emptyResult, defaultChoices>>

\* The .then of lines 269-273 and 281-285; close() delivers the close
\* request synchronously.
SaveResolve ==
  /\ UNCHANGED unsaved
  /\ inflight > 0
  /\ inflight' = inflight - 1
  /\ handleDirtyState(FALSE)
  /\ onSaveCalls' = onSaveCalls + 1
  /\ onCloseRequest(Truthy(dirty'))
  /\ last' = Step("saveResponse", "ok")
  /\ UNCHANGED <<name, code, schema, schemaDisplayName, requiredFields,
                 allMetadata, metadata, metadataRef, displayName, allTags,
                 invalidForm, editor, titleLabel, pc, schemaValue,
                 emptyResult,
                 defaultChoices>>

\* The .catch that also marks the editor clean.
SaveReject_MarksClean ==
  /\ UNCHANGED unsaved
  /\ inflight > 0
  /\ inflight' = inflight - 1
  /\ dirty' = Bool(FALSE)
  /\ last' = Report("saveResponse", "failed", FALSE, NoRequest)
  /\ UNCHANGED <<name, code, schema, schemaDisplayName, requiredFields,
                 allMetadata, metadata, metadataRef, displayName, clearDirty,
                 statusDirty, titleClassName, allTags, invalidForm, editor,
                 titleLabel, dom, pc, dialogs, disposed, onSaveCalls,
                 schemaValue, emptyResult,
                 defaultChoices>>

\* The .catch of lines 274 and 286.
SaveReject ==
  /\ UNCHANGED unsaved
  /\ inflight > 0
  /\ inflight' = inflight - 1
  /\ last' = Report("saveResponse", "failed", TRUE, NoRequest)
  /\ UNCHANGED <<name, code, schema, schemaDisplayName, requiredFields,
                 allMetadata, metadata, metadataRef, displayName, dirtyVars,
                 allTags, invalidForm, editor, titleLabel, dom, pc, dialogs,
                 disposed, onSaveCalls, schemaValue, emptyResult,
                 defaultChoices>>

Next ==
  \/ GetSchemaResolve
  \/ GetSchemaReject
  \/ GetMetadataResolve
  \/ GetMetadataReject
  \/ Render
  \/ TextInputChange
  \/ DropdownChange
  \/ ChangeOnTag
  \/ CodeChanged
  \/ SaveClick
  \/ SaveResolve
  \/ SaveReject
  \/ CloseRequest
  \/ DialogAccept
  \/ DialogDecline

Spec == Init /\ [][Next]_vars


(***************************************************************************)
(* isValueEmpty called directly on a value                                 *)
(***************************************************************************)
MaxArrayLen == 3

\* The strings tried, alone and as array elements.
EmptyStrings == {"", "a", " ", NO_SELECTION}

EmptyInputs ==
  {Undef, Null, Bool(FALSE), Bool(TRUE)}
  \cup {Str(x) : x \in EmptyStrings \cup {"(no selection)"}}
  \cup {Arr(x) : x \in UNION {[1..n -> EmptyStrings] : n \in 0..MaxArrayLen}}

InitEmpty ==
  /\ Constructed([name |-> Undef, code |-> Undef])
  /\ schemaValue \in EmptyInputs
  /\ emptyResult = [done |-> FALSE, value |-> FALSE]
  /\ defaultChoices = NoChoices

CallIsValueEmpty ==
  /\ ~emptyResult.done
  /\ emptyResult' = [done |-> TRUE, value |-> isValueEmpty(schemaValue)]
  /\ UNCHANGED <<editorVars, schemaValue, defaultChoices>>

NextEmpty == CallIsValueEmpty

SpecEmpty == InitEmpty /\ [][NextEmpty]_vars


(***************************************************************************)
(* getDefaultChoices called directly, on a loaded and rendered editor with *)
(* one dropdown field                                                      *)
(***************************************************************************)
MaxChoices == 2
MaxRecords == 2

\* The strings tried as choices and as the records' values of the field.
ChoiceStrings == {"x", "X", "y"}

ChoiceLists == UNION {[1..n -> ChoiceStrings] : n \in 0..MaxChoices}

\* The dropdown field, with an enum or not and default_choices or not.
DropdownProperties ==
  {[Property(Undef, TRUE, "dropdown") EXCEPT !.enum = e,
                                             !.default_choices = d] :
     e \in {Undef, Arr(<<"x", "X">>)},
     d \in {Undef} \cup {Arr(c) : c \in ChoiceLists}}

\* A record after lines 160-179: it has tags, and the dropdown field if
\* value is not undefined.
ChoiceRecord(i, value) ==
  [name |-> "r" \o ToString(i), display_name |-> Str("d"),
   metadata |-> [k \in {"tags"} \cup (IF value = Undef THEN {}
                                       ELSE {"language"}) |->
                   IF k = "tags" THEN Arr(<<>>) ELSE value]]

ChoiceValues == {Undef, Str("")} \cup {Str(c) : c \in ChoiceStrings}

ChoiceRecordLists ==
  UNION {{[i \in 1..n |-> ChoiceRecord(i, values[i])] :
            values \in [1..n -> ChoiceValues]} : n \in 0..MaxRecords}

\* The editor once both fetches are done and the form is rendered: a new
\* record (current = 0) or the record at position current.
InitChoices ==
  /\ \E property \in DropdownProperties, records \in ChoiceRecordLists :
       \E current \in 0..Len(records) :
         /\ schema = [k \in {"language"} |-> property]
         /\ allMetadata = records
         /\ metadataRef = current
         /\ name = IF current = 0 THEN Undef ELSE Str(records[current].name)
         /\ metadata = IF current = 0 THEN EmptyObject
                       ELSE records[current].metadata
         /\ displayName = IF current = 0 THEN Str("") ELSE Str("d")
         /\ titleLabel = IF current = 0 THEN Str("New Snippet") ELSE Str("d")
  /\ code = Undef
  /\ schemaDisplayName = Str("Snippet")
  /\ requiredFields = Arr(<<>>)
  /\ dirty = Undef
  /\ clearDirty = "null"
  /\ statusDirty = 0
  /\ allTags = <<>>
  /\ invalidForm = FALSE
  /\ editor = FALSE
  /\ titleClassName = <<>>
  /\ dom = [rendered |-> TRUE, nameInput |-> TRUE, fields |-> {"language"}]
  /\ pc = "done"
  /\ inflight = 0
  /\ dialogs = 0
  /\ disposed = FALSE
  /\ onSaveCalls = 0
  /\ last = Step("render", "ok")
  /\ unsaved = FALSE
  /\ schemaValue = Undef
  /\ emptyResult = [done |-> FALSE, value |-> FALSE]
  /\ defaultChoices = NoChoices

CallGetDefaultChoices ==
  /\ ~defaultChoices.done
  /\ \E fieldName \in dom.fields :
       /\ schema[fieldName].field_type = "dropdown"
       /\ defaultChoices' = [done |-> TRUE,
                             value |-> getDefaultChoices(fieldName)]
  /\ UNCHANGED <<editorVars, schemaValue, emptyResult>>

NextChoices == CallGetDefaultChoices

SpecChoices == InitChoices /\ [][NextChoices]_vars


(***************************************************************************)
(* The claims                                                              *)
(***************************************************************************)
\* A field's value as  record[field] ?? schema[field].default .
FieldValue_Nullish(meta, sch, schemaField) ==
  IF Get(meta, schemaField) \in {Undef, Null}
  THEN sch[schemaField].default
  ELSE Get(meta, schemaField)

\* A field the schema's required list names; no list, no required field.
RequiredField(f) == requiredFields # Undef /\ Includes(requiredFields, f)

\* C1: right after a create or update request has completed successfully
\* the dirty flag is false, whatever edits came before.
C1_SuccessfulSaveIsClean ==
  (last.op = "saveResponse" /\ last.outcome = "ok") => dirty = Bool(FALSE)

\* A new record saved successfully after a text, a dropdown, a tag and a
\* code edit.
C1_Witness ==
  /\ last.op = "saveResponse" /\ last.outcome = "ok"
  /\ dirty = Bool(FALSE)
  /\ name = Undef
  /\ displayName = Str("a")
  /\ Get(metadata, "language") = Str("y")
  /\ Get(metadata, "tags") = Arr(<<"t2">>)
  /\ Get(metadata, "code") = Arr(<<"c">>)

\* C2 as stated: while the confirmation dialog is unanswered the editor is
\* not torn down; after accepting it is torn down; after declining it is
\* open and still dirty; a clean close request tears down with no dialog.
C2_NoTeardownBeforeAnswer ==
  /\ dialogs > 0 => ~disposed
  /\ (last.op = "dialog" /\ last.outcome = "accept") => disposed
  /\ (last.op = "dialog" /\ last.outcome = "decline") =>
       (~disposed /\ Truthy(dirty))
  /\ (last.op = "close" /\ last.outcome = "disposed") => disposed

\* C2 amended: a close request on a dirty editor tears nothing down and
\* opens the dialog; on a clean editor it tears down at once with no
\* dialog; accepting tears down; declining changes neither the dirty flag
\* nor whether the editor is open; and an open editor is torn down only by
\* an accepted dialog, a clean close request, or a successful save, which
\* closes the editor without waiting for an open dialog.
C2_CloseConfirmed ==
  [][/\ (CloseRequest /\ Truthy(dirty)) =>
          (~disposed' /\ dialogs' = dialogs + 1)
     /\ (CloseRequest /\ ~Truthy(dirty)) =>
          (disposed' /\ dialogs' = dialogs)
     /\ DialogAccept => disposed'
     /\ DialogDecline => UNCHANGED <<disposed, dirty>>
     /\ (~disposed /\ disposed') =>
          \/ DialogAccept
          \/ SaveResolve
          \/ (CloseRequest /\ ~Truthy(dirty))]_vars

\* A dirty editor torn down by accepting the dialog.
C2_Witness ==
  /\ last.op = "dialog" /\ last.outcome = "accept"
  /\ disposed
  /\ Truthy(dirty)
  /\ dialogs = 0

\* C3: a save attempt on a form that validation finds invalid sends no
\* request, leaves the editor open, does not call onSave and leaves the
\* dirty flag alone.
C3_InvalidSaveSendsNothing ==
  [][(SaveClick /\ hasInvalidFields.invalidForm) =>
       /\ inflight' = inflight
       /\ last'.request = NoRequest
       /\ ~disposed'
       /\ onSaveCalls' = onSaveCalls
       /\ dirty' = dirty]_vars

\* An invalid save attempt on an open, dirty editor with a required field
\* flagged.
C3_Witness ==
  /\ last.op = "save" /\ last.outcome = "invalid"
  /\ invalidForm
  /\ Truthy(dirty)
  /\ ~disposed
  /\ \E f \in DOMAIN schema : schema[f].error = Bool(TRUE)

\* C4: after every save attempt invalidForm is true iff the display name is
\* empty or null or some required field is empty, a field's value being
\* record[field] ?? schema[field].default.
C4_InvalidFormIffEmpty ==
  last.op = "save" =>
    (invalidForm <=>
       \/ displayName \in {Null, Str("")}
       \/ \E f \in DOMAIN schema :
            /\ RequiredField(f)
            /\ isValueEmpty(FieldValue_Nullish(metadata, schema, f)))

\* C5: when a create or update request fails, a server error is reported,
\* the editor stays as open as it was, the dirty flag keeps its value and
\* onSave is not called.
C5_FailedSaveKeepsState ==
  [][SaveReject =>
       /\ last'.serverError
       /\ disposed' = disposed
       /\ dirty' = dirty
       /\ onSaveCalls' = onSaveCalls]_vars

\* A failed save of an open, dirty editor.
C5_Witness ==
  /\ last.op = "saveResponse" /\ last.outcome = "failed"
  /\ last.serverError
  /\ Truthy(dirty)
  /\ ~disposed
  /\ onSaveCalls = 0

\* C6: a valid save without a record name calls postMetadata, a valid save
\* with a record name calls putMetadata with that name; each valid save
\* makes that one call.
C6_CreateOrUpdate ==
  [][(SaveClick /\ ~hasInvalidFields.invalidForm /\ ~hasInvalidFields.threw) =>
       /\ inflight' = inflight + 1
       /\ IF ~Truthy(name)
          THEN last'.request.method = "POST"
          ELSE /\ last'.request.method = "PUT"
               /\ last'.request.name = name]_vars

\* An update request for the record r1.
C6_Witness ==
  /\ last.op = "save" /\ last.outcome = "sent"
  /\ name = Str("r1")
  /\ last.request.method = "PUT"
  /\ last.request.name = Str("r1")

\* C7: the dirty flag goes from true to false only in the step handling a
\* successful save response.
C7_CleanOnlyBySave ==
  [][(Truthy(dirty) /\ ~Truthy(dirty')) => SaveResolve]_vars

\* A declined close confirmation that left the editor dirty.
C7_Witness ==
  /\ last.op = "dialog" /\ last.outcome = "decline"
  /\ Truthy(dirty)
  /\ ~disposed

\* C8: a text-input change on a field other than display_name removes the
\* key when the value is falsy and the field not required, stores the
\* value otherwise, and leaves the other fields and the display name alone.
C8_TextChangeStoresOrDeletes ==
  [][\A f \in DOMAIN schema, v \in TextValues :
       (TextInputChange /\ last'.args = <<f, v>>) =>
         /\ IF ~Truthy(Str(v)) /\ ~RequiredField(f)
            THEN f \notin DOMAIN metadata'
            ELSE Get(metadata', f) = Str(v)
         /\ \A g \in (DOMAIN metadata \cup DOMAIN metadata') \ {f} :
              Get(metadata', g) = Get(metadata, g)
         /\ displayName' = displayName]_vars

\* The values the emptiness rule names.
EmptyValues ==
  {Undef, Null, Str(""), Arr(<<>>), Arr(<<"">>), Str(NO_SELECTION)}

\* C9: isValueEmpty(v) is true exactly for undefined, null, "", [], [""]
\* and "(No selection)".
C9_EmptinessRule ==
  emptyResult.done => (emptyResult.value <=> schemaValue \in EmptyValues)

\* isValueEmpty has answered false for an array of two empty strings.
C9_Witness ==
  /\ emptyResult.done
  /\ schemaValue = Arr(<<"", "">>)
  /\ ~emptyResult.value

\* C10: after each validation run the fields whose error flag is set are
\* exactly the required fields whose value is empty.
C10_FlagsAreEmptyRequired ==
  last.op = "save" =>
    {f \in DOMAIN schema : schema[f].error = Bool(TRUE)}
      = {f \in DOMAIN schema :
           /\ RequiredField(f)
           /\ isValueEmpty(FieldValue_Nullish(metadata, schema, f))}

\* The number of dirty markers in the title's class name.
DirtyMarkers ==
  Cardinality({i \in 1..Len(titleClassName) : titleClassName[i] = DIRTY_CLASS})

\* C11: while the editor is open the indicator handle is held iff the dirty
\* flag is true; a step from dirty to dirty acquires no handle and adds no
\* marker to the title, a step from clean to clean releases no handle; so
\* never more than one handle or marker is held and none is released twice.
C11_IndicatorFollowsDirty ==
  /\ [](~disposed => (clearDirty # "null" <=> Truthy(dirty)))
  /\ [](statusDirty \in {0, 1} /\ DirtyMarkers \in {0, 1})
  /\ [][/\ (Truthy(dirty) /\ Truthy(dirty')) =>
             UNCHANGED <<clearDirty, statusDirty, titleClassName>>
        /\ (~Truthy(dirty) /\ ~Truthy(dirty')) =>
             UNCHANGED <<clearDirty, statusDirty>>]_vars

\* An open editor marked dirty by a display-name change and again by a
\* change of field A, holding one handle and one marker.
C11_Witness ==
  /\ ~disposed
  /\ name = Undef
  /\ displayName = Str("a")
  /\ Get(metadata, "A") = Str("a")
  /\ Truthy(dirty)
  /\ clearDirty = "handle"
  /\ statusDirty = 1
  /\ titleClassName = <<DIRTY_CLASS>>

\* Whether no two entries of the list differ only by letter case.
NoCaseDuplicates(list) ==
  \A i, j \in 1..Len(list) :
    list[i] # list[j] => toLowerCase(list[i]) # toLowerCase(list[j])

\* The default_choices the schema declares for the field (none: empty).
DeclaredChoices(f) ==
  IF schema[f].default_choices = Undef THEN <<>>
  ELSE schema[f].default_choices.a

\* The records' truthy values of the field, in the records' order.
RecordValues(f) ==
  LET at == {i \in 1..Len(allMetadata) :
               Truthy(Get(allMetadata[i].metadata, f))}
      RECURSIVE From(_)
      From(i) == IF i > Len(allMetadata) THEN <<>>
                 ELSE IF i \in at
                 THEN <<allMetadata[i].metadata[f].s>> \o From(i + 1)
                 ELSE From(i + 1)
  IN From(1)

C13_TagPoolComplete ==
  pc = "done" =>
    \A i \in 1..Len(allMetadata) :
      LET tags == Get(allMetadata[i].metadata, "tags")
      IN /\ tags.t = "array"
         /\ \A j \in 1..Len(tags.a) :
              \E k \in 1..Len(allTags) : allTags[k] = tags.a[j]

\* C14: when the selected schema declares no required list, validation and
\* text-input changes treat no field as required and complete normally: a
\* save attempt ends with invalidForm true iff the display name is empty
\* or null, and a text-input change does not fail.
C14_NoRequiredListIsEmpty ==
  (/\ schemaDisplayName # Undef
   /\ requiredFields = Undef
   /\ \A f \in DOMAIN schema : schema[f].uihints) =>
    /\ last.op = "textInput" => last.outcome = "ok"
    /\ last.op = "save" =>
         /\ last.outcome \in {"sent", "invalid"}
         /\ invalidForm <=> displayName \in {Null, Str("")}

\* C15: when the editor has been torn down while a startup fetch was in
\* flight, the completion of that fetch changes no editor state (schema,
\* required fields, records, record, display name, tag pool, title, code
\* editor), reports no error and fails with none.
C15_DisposedFetchNotObserved ==
  [][(disposed /\ pc' # pc) =>
       /\ UNCHANGED <<schema, schemaDisplayName, requiredFields, allMetadata,
                      metadata, metadataRef, displayName, allTags,
                      titleLabel, editor>>
       /\ ~last'.serverError
       /\ last'.outcome # "threw"]_vars

\* C16: the dirty flag is true in every state in which the record or the
\* display name has changed since the last successful save, or since load
\* if there was none.  A change made after the last request was sent is in
\* no saved record, so the flag is true whenever there is such a change.
C16_MutatedIsDirty ==
  unsaved => Truthy(dirty)

\* Whether every tag of the pool is still in the pool after the step.
PoolKept ==
  \A i \in 1..Len(allTags) : \E k \in 1..Len(allTags') : allTags'[k] = allTags[i]

C18_RequestsAreComplete ==
  (last.op = "save" /\ last.outcome = "sent") =>
    LET body == last.request.body
    IN /\ "display_name" \in DOMAIN body
       /\ body["display_name"].t = "string"
       /\ body["display_name"].s # ""
       /\ \A f \in DOMAIN schema :
            RequiredField(f) =>
              ~isValueEmpty(FieldValue_Nullish(body["metadata"], schema, f))

\* C19: a successful save marks the editor clean, calls onSave once and
\* closes; the close request finds the editor clean, so the step tears the
\* editor down and opens no confirmation dialog.
C19_SaveClosesWithoutDialog ==
  [][SaveResolve =>
       /\ dirty' = Bool(FALSE)
       /\ clearDirty' = "null"
       /\ onSaveCalls' = onSaveCalls + 1
       /\ disposed'
       /\ dialogs' = dialogs]_vars

\* A dirty new record saved: the editor is clean, onSave was called once,
\* the editor is torn down and no dialog is open.
C19_Witness ==
  /\ last.op = "saveResponse" /\ last.outcome = "ok"
  /\ name = Undef
  /\ displayName = Str("a")
  /\ dirty = Bool(FALSE)
  /\ titleClassName = <<>>
  /\ onSaveCalls = 1
  /\ disposed
  /\ dialogs = 0

\* C20: within one editor session onSave is called at most once, so at most
\* one create request succeeds, also when Save is clicked again while a
\* request is in flight; and a request is issued only by a save click.
C20_SavedAtMostOnce ==
  /\ [](onSaveCalls <= 1)
  /\ [][inflight' > inflight => SaveClick]_vars

====
